---- MODULE Spec2Model ----
(***************************************************************************)
(* cctx: the settings-merge engine (src/src/merge.rs) and the merge and    *)
(* unmerge commands that drive it (src/src/context.rs).                    *)
(*                                                                         *)
(* A settings document is a serde_json::Value.  Values are modelled as     *)
(* tagged records: Str, Num, Null, Arr (a sequence of values) and Obj (a   *)
(* function from keys to values).  Option::None is the record None.        *)
(* Strings are TLA+ strings, so that the provenance tags of the history    *)
(* (format!("allow:{}", s), strip_prefix("env:")) are real concatenations  *)
(* and prefix tests.                                                       *)
(*                                                                         *)
(* Four specifications share the engine operators: Spec runs the four      *)
(* commands on one context (its document and its history), SpecFs runs     *)
(* them on the files of the contexts directory (targets, sources, history  *)
(* and state files, any of which can be missing), SpecCtx adds the         *)
(* commands that manage the contexts (switch, create, import, delete,      *)
(* rename, unset) and the state file, SpecRace runs two invocations of a   *)
(* merge command with their file operations interleaved.                   *)
(***************************************************************************)
EXTENDS Integers, Sequences, FiniteSets, TLC

VARIABLES doc, hist, last, nOps, fs, cmd, nCmds, inv, wrote

\* one context: its settings file, its history, the latest command
vars == <<doc, hist, last, nOps>>

\* the files of the contexts directory and the latest command run on them
fsVars == <<fs, cmd, nCmds>>

\* two invocations running at once and the order of their writes
raceVars == <<inv, wrote>>

(***************************************************************************)
(* Bounds                                                                  *)
(***************************************************************************)
MaxOps == 3

(***************************************************************************)
(* serde_json::Value                                                       *)
(***************************************************************************)
None == [t |-> "none"]

Null == [t |-> "null"]

Str(s) == [t |-> "str", s |-> s]

Num(n) == [t |-> "num", n |-> n]

Arr(q) == [t |-> "arr", items |-> q]

Obj(f) == [t |-> "obj", m |-> f]

EmptyMap == [k \in {} |-> Null]

Range(q) == {q[i] : i \in DOMAIN q}

\* Value::get(key): Some(value) for a key of an object, None otherwise
Get(v, k) == IF v.t = "obj" /\ k \in DOMAIN v.m THEN v.m[k] ELSE None

\* Map::insert(key, value)
Put(v, k, x) == Obj([j \in (DOMAIN v.m) \cup {k} |-> IF j = k THEN x ELSE v.m[j]])

\* Map::remove(key)
Remove(v, k) == Obj([j \in (DOMAIN v.m) \ {k} |-> v.m[j]])

\* Value::as_array
AsArray(v) == IF v.t = "arr" THEN v ELSE None

\* Value::as_object
AsObject(v) == IF v.t = "obj" THEN v ELSE None

\* str::starts_with
StartsWith(s, p) == Len(s) >= Len(p) /\ SubSeq(s, 1, Len(p)) = p

\* str::strip_prefix, for a string that starts with the prefix
StripPrefix(s, p) == SubSeq(s, Len(p) + 1, Len(s))

\* iteration order of serde_json::Map (a BTreeMap: keys in byte order)
KeyOrder ==
    <<"X", "allow", "allow:Bash(ls)", "deny", "deny:Bash(ls)", "env", "env:X",
      "permissions", "theme">>

SortedKeys(m) == SelectSeq(KeyOrder, LAMBDA k : k \in DOMAIN m)

(***************************************************************************)
(* merge_permissions                                                       *)
(***************************************************************************)
\* json!({"allow": [], "deny": []})
DefaultPermissions == Obj([k \in {"allow", "deny"} |-> Arr(<<>>)])

\* iter().filter_map(|v| v.as_str().map(String::from)).collect::<HashSet<_>>()
StrSet(items) == {items[i].s : i \in {j \in DOMAIN items : items[j].t = "str"}}

\* NewItems recording every source string, also those the set already holds
NewItemsAll(src, set) ==
    LET strs == SelectSeq(src, LAMBDA v : v.t = "str")
    IN [i \in DOMAIN strs |-> strs[i].s]

\* the source strings for which HashSet::insert returns true, in source order
RECURSIVE NewItems(_, _)
NewItems(src, set) ==
    IF src = <<>> THEN <<>>
    ELSE LET h == Head(src) IN
         IF h.t = "str" /\ h.s \notin set
         THEN <<h.s>> \o NewItems(Tail(src), set \cup {h.s})
         ELSE NewItems(Tail(src), set)

\* format!("<prefix>{}", s) for every new item
Tagged(prefix, q) == [i \in DOMAIN q |-> prefix \o q[i]]

\* set.into_iter().map(Value::String).collect(): the iteration order of a
\* HashSet is unspecified, every order is a possible array
IntoArray(set) ==
    {Arr([i \in DOMAIN q |-> Str(q[i])]) :
        q \in {p \in [1..Cardinality(set) -> set] : Range(p) = set}}

\* source.get("permissions").and_then(|p| p.get(list)).and_then(|a| a.as_array())
SourceList(source, list) == AsArray(Get(Get(source, "permissions"), list))

\* target["permissions"][list].as_array_mut().ok_or_else(..): the array, None
\* for the error, "panic" when IndexMut is applied to a scalar or an array
TargetList(target, list) ==
    LET perms == target.m["permissions"] IN
    IF perms.t \notin {"obj", "null"} THEN [t |-> "panic"]
    ELSE AsArray(Get(perms, list))

\* MergeList with the source strings appended to the target array without
\* the HashSet (no deduplication)
MergeListAppend(target, source_list, list, prefix) ==
    LET cur == TargetList(target, list) IN
    IF cur.t = "panic" THEN {[kind |-> "panic", target |-> target, items |-> <<>>]}
    ELSE IF cur = None THEN {[kind |-> "err", target |-> target, items |-> <<>>]}
    ELSE LET strs == SelectSeq(source_list.items, LAMBDA v : v.t = "str")
             perms == target.m["permissions"]
         IN {[kind |-> "ok",
              target |-> Put(target, "permissions",
                             Put(perms, list, Arr(cur.items \o strs))),
              items |-> Tagged(prefix, [i \in DOMAIN strs |-> strs[i].s])]}

\* one "Merge allow/deny permissions" block: the possible outcomes
MergeList(target, source_list, list, prefix) ==
    LET cur == TargetList(target, list) IN
    IF cur.t = "panic" THEN {[kind |-> "panic", target |-> target, items |-> <<>>]}
    ELSE IF cur = None THEN {[kind |-> "err", target |-> target, items |-> <<>>]}
    ELSE LET set0 == StrSet(cur.items)
             new == NewItems(source_list.items, set0)
             perms == target.m["permissions"]
         IN {[kind |-> "ok",
              target |-> Put(target, "permissions", Put(perms, list, a)),
              items |-> Tagged(prefix, new)] : a \in IntoArray(set0 \cup Range(new))}

\* a block guarded by `if let Some(source_list) = ...`
MergeListIfSome(target, source_list, list, prefix) ==
    IF source_list = None
    THEN {[kind |-> "ok", target |-> target, items |-> <<>>]}
    ELSE MergeList(target, source_list, list, prefix)

\* MergeHistory { source, timestamp, merged_items, full_merge }
MergeHistory(source_name, now, merged_items, full_merge) ==
    [source |-> source_name, timestamp |-> now,
     merged_items |-> merged_items, full_merge |-> full_merge]

\* EnsurePermissions without the is_none test
EnsurePermissionsAlways(target) == Put(target, "permissions", DefaultPermissions)

\* "Ensure target has permissions object"
EnsurePermissions(target) ==
    IF Get(target, "permissions") = None
    THEN Put(target, "permissions", DefaultPermissions)
    ELSE target

\* the results of merge_permissions: kind "ok" with the mutated target and
\* the record, kind "err" for the anyhow error, kind "panic"
MergePermissions(target, source, source_name, now) ==
    LET t0 == EnsurePermissions(target) IN
    UNION {
        IF oa.kind # "ok"
        THEN {[kind |-> oa.kind, target |-> oa.target, rec |-> None]}
        ELSE {[kind |-> od.kind, target |-> od.target,
               rec |-> IF od.kind = "ok"
                       THEN MergeHistory(source_name, now, oa.items \o od.items, FALSE)
                       ELSE None] :
                od \in MergeListIfSome(oa.target, SourceList(source, "deny"), "deny", "deny:")}
        : oa \in MergeListIfSome(t0, SourceList(source, "allow"), "allow", "allow:")}

(***************************************************************************)
(* merge_full                                                              *)
(***************************************************************************)
\* MergeFullPermissions recording the tags of the scoped merge
MergeFullPermissionsScopedTags(target, value) ==
    LET t0 == IF "permissions" \notin DOMAIN target.m
              THEN Put(target, "permissions", DefaultPermissions)
              ELSE target
    IN
    IF AsObject(value) = None
    THEN {[kind |-> "ok", target |-> t0, items |-> <<>>]}
    ELSE UNION {
        IF oa.kind # "ok" THEN {oa}
        ELSE {[kind |-> od.kind, target |-> od.target, items |-> oa.items \o od.items] :
                od \in MergeListIfSome(oa.target, AsArray(Get(value, "deny")),
                                       "deny", "deny:")}
        : oa \in MergeListIfSome(t0, AsArray(Get(value, "allow")), "allow", "allow:")}

\* the "permissions" arm of the match
MergeFullPermissions(target, value) ==
    LET t0 == IF "permissions" \notin DOMAIN target.m
              THEN Put(target, "permissions", DefaultPermissions)
              ELSE target
    IN
    IF AsObject(value) = None
    THEN {[kind |-> "ok", target |-> t0, items |-> <<>>]}
    ELSE UNION {
        IF oa.kind # "ok" THEN {oa}
        ELSE {[kind |-> od.kind, target |-> od.target, items |-> oa.items \o od.items] :
                od \in MergeListIfSome(oa.target, AsArray(Get(value, "deny")),
                                       "deny", "permissions.deny:")}
        : oa \in MergeListIfSome(t0, AsArray(Get(value, "allow")),
                                 "allow", "permissions.allow:")}

\* NewEnvKeys without the contains_key test
NewEnvKeysAll(target_env, source_env) == SortedKeys(source_env.m)

\* the loop over source_env: the env keys the target does not have, in order
NewEnvKeys(target_env, source_env) ==
    SelectSeq(SortedKeys(source_env.m), LAMBDA k : k \notin DOMAIN target_env.m)

\* the "env" arm of the match
MergeFullEnv(target, value) ==
    IF AsObject(value) = None
    THEN [kind |-> "ok", target |-> target, items |-> <<>>]
    ELSE LET t0 == IF "env" \notin DOMAIN target.m
                   THEN Put(target, "env", Obj(EmptyMap))
                   ELSE target
             target_env == AsObject(Get(t0, "env"))
         IN
         IF target_env = None
         THEN [kind |-> "ok", target |-> t0, items |-> <<>>]
         ELSE LET new == NewEnvKeys(target_env, value)
                  env1 == Obj([k \in (DOMAIN target_env.m) \cup Range(new) |->
                                 IF k \in DOMAIN target_env.m
                                 THEN target_env.m[k] ELSE value.m[k]])
              IN [kind |-> "ok", target |-> Put(t0, "env", env1),
                  items |-> Tagged("env:", new)]

\* MergeFullOther without the contains_key test: the source value wins
MergeFullOtherOverwrite(target, key, value) ==
    [kind |-> "ok", target |-> Put(target, key, value), items |-> <<key>>]

\* the `_` arm of the match: "For other fields, overwrite if not present"
MergeFullOther(target, key, value) ==
    IF key \notin DOMAIN target.m
    THEN [kind |-> "ok", target |-> Put(target, key, value), items |-> <<key>>]
    ELSE [kind |-> "ok", target |-> target, items |-> <<>>]

\* for (key, value) in source_obj { match key.as_str() { .. } }
RECURSIVE MergeFullKeys(_, _, _, _)
MergeFullKeys(keys, target, source, items) ==
    IF keys = <<>>
    THEN {[kind |-> "ok", target |-> target, items |-> items]}
    ELSE LET key == Head(keys)
             value == source.m[key]
             outs == IF key = "permissions" THEN MergeFullPermissions(target, value)
                     ELSE IF key = "env" THEN {MergeFullEnv(target, value)}
                     ELSE {MergeFullOther(target, key, value)}
         IN UNION {
             IF o.kind = "ok"
             THEN MergeFullKeys(Tail(keys), o.target, source, items \o o.items)
             ELSE {[kind |-> o.kind, target |-> o.target, items |-> <<>>]}
             : o \in outs}

\* the results of merge_full, shaped as those of merge_permissions
MergeFull(target, source, source_name, now) ==
    LET outs == IF AsObject(source) # None /\ AsObject(target) # None
                THEN MergeFullKeys(SortedKeys(source.m), target, source, <<>>)
                ELSE {[kind |-> "ok", target |-> target, items |-> <<>>]}
    IN {[kind |-> o.kind, target |-> o.target,
         rec |-> IF o.kind = "ok"
                 THEN MergeHistory(source_name, now, o.items, TRUE)
                 ELSE None] : o \in outs}

(***************************************************************************)
(* unmerge_permissions, unmerge_full                                       *)
(***************************************************************************)
\* ItemsToRemove without the source filter
ItemsToRemoveAnySource(history, source_name) ==
    UNION {Range(history[i].merged_items) : i \in DOMAIN history}

\* "Find all items merged from this source":
\* history.iter().filter(..).flat_map(|h| h.merged_items..).collect::<HashSet<_>>()
ItemsToRemove(history, source_name) ==
    UNION {Range(history[i].merged_items) :
             i \in {j \in DOMAIN history : history[j].source = source_name}}

\* "Find all full merge entries from this source"
FullMergeItems(history, source_name) ==
    UNION {Range(history[i].merged_items) :
             i \in {j \in DOMAIN history :
                       history[j].source = source_name /\ history[j].full_merge}}

\* NotTagged keeping string entries only
NotTaggedStrings(items, prefix, v) ==
    IF v.t = "str" THEN (prefix \o v.s) \notin items ELSE FALSE

\* the closure of "Remove from allow/deny list"
NotTagged(items, prefix, v) ==
    IF v.t = "str" THEN (prefix \o v.s) \notin items ELSE TRUE

\* "Remove from allow list" / "Remove from deny list": Vec::retain on
\* target.permissions[list], when that is an array
RetainUntagged(target, list, items, prefix) ==
    LET perms == Get(target, "permissions")
        arr == AsArray(Get(perms, list))
    IN IF arr = None THEN target
       ELSE Put(target, "permissions",
                Put(perms, list,
                    Arr(SelectSeq(arr.items, LAMBDA v : NotTagged(items, prefix, v)))))

\* perms.retain(|v| v.as_str() != Some(perm_value)) on
\* target.permissions[perm_type], when that is an array
RetainOtherThan(target, perm_type, perm_value) ==
    LET perms == Get(target, "permissions")
        arr == AsArray(Get(perms, perm_type))
    IN IF arr = None THEN target
       ELSE Put(target, "permissions",
                Put(perms, perm_type,
                    Arr(SelectSeq(arr.items, LAMBDA v : v # Str(perm_value)))))

\* UpdatedHistory dropping the scoped records of the source only
UpdatedHistoryScopedOnly(history, source_name) ==
    SelectSeq(history, LAMBDA h : ~(h.source = source_name /\ ~h.full_merge))

\* "Update history to remove entries from this source"
UpdatedHistory(history, source_name) ==
    SelectSeq(history, LAMBDA h : h.source # source_name)

\* the document left by unmerge_permissions
UnmergePermissions(target, history, source_name) ==
    LET items == ItemsToRemove(history, source_name)
        t1 == RetainUntagged(target, "allow", items, "allow:")
    IN RetainUntagged(t1, "deny", items, "deny:")

\* target_obj.retain(|key, _| !full_merge_items.contains(key))
RetainKeys(target, items) ==
    Obj([k \in {j \in DOMAIN target.m : j \notin items} |-> target.m[k]])

\* one turn of `for item in &full_merge_items`
UnmergeItem(target, item) ==
    IF StartsWith(item, "env:")
    THEN LET env_key == StripPrefix(item, "env:")
             env_obj == AsObject(Get(target, "env"))
         IN IF env_obj = None THEN target
            ELSE Put(target, "env", Remove(env_obj, env_key))
    ELSE IF StartsWith(item, "permissions.allow:")
    THEN LET perm_value == StripPrefix(item, "permissions.allow:")
         IN RetainOtherThan(target, "allow", perm_value)
    ELSE IF StartsWith(item, "permissions.deny:")
    THEN LET perm_value == StripPrefix(item, "permissions.deny:")
         IN RetainOtherThan(target, "deny", perm_value)
    ELSE target

\* the loop over the HashSet full_merge_items; the removals commute, so the
\* iteration order does not show in the result
RECURSIVE UnmergeItems(_, _)
UnmergeItems(target, items) ==
    IF items = {} THEN target
    ELSE LET item == CHOOSE i \in items : TRUE
         IN UnmergeItems(UnmergeItem(target, item), items \ {item})

\* UnmergeFull without the closing call of the scoped path
UnmergeFullOnly(target, history, source_name) ==
    LET items == FullMergeItems(history, source_name)
    IN IF AsObject(target) # None
       THEN UnmergeItems(RetainKeys(target, items), items)
       ELSE target

\* the document left by unmerge_full
UnmergeFull(target, history, source_name) ==
    LET items == FullMergeItems(history, source_name)
        t1 == IF AsObject(target) # None
              THEN UnmergeItems(RetainKeys(target, items), items)
              ELSE target
    IN UnmergePermissions(t1, history, source_name)

(***************************************************************************)
(* The documents and source names the commands are run with                *)
(***************************************************************************)
Ls == Str("Bash(ls)")

Rm == Str("Bash(rm)")

Perms(allow, deny) == "permissions" :> Obj(("allow" :> allow) @@ ("deny" :> deny))

Env(x) == "env" :> Obj("X" :> Str(x))

Theme(v) == "theme" :> Str(v)

\* the context's settings file before the first command: any JSON object the
\* user saved or imported (create_context and import_context copy it as is)
TargetDocs ==
    { Obj(EmptyMap),
      Obj(Theme("dark")),
      Obj(Theme("dark") @@ Env("2")),
      Obj(Perms(Arr(<<Ls, Ls>>), Arr(<<Rm>>))),
      Obj(Perms(Arr(<<Num(1), Ls>>), Arr(<<>>))),
      Obj("permissions" :> Obj("allow" :> Arr(<<Ls>>))),
      Obj(Perms(Str("all"), Arr(<<>>))),
      Obj("permissions" :> Str("none")) }

\* the `source` argument of a command (a context name or a file) and the
\* parsed document it resolves to when the command runs
Sources ==
    { [name |-> "teamA", doc |-> Obj(Perms(Arr(<<Ls>>), Arr(<<>>)))],
      [name |-> "teamA", doc |-> Obj(Theme("light") @@ Env("1")
                                     @@ Perms(Arr(<<Rm, Ls, Rm>>), Arr(<<Num(1), Rm>>)))],
      [name |-> "teamB", doc |-> Obj(Theme("light") @@ Env("1"))],
      [name |-> "teamB", doc |-> Obj(("env:X" :> Str("colon"))
                                     @@ ("allow:Bash(ls)" :> Str("colon"))
                                     @@ ("deny:Bash(ls)" :> Str("colon"))
                                     @@ ("permissions" :> Obj("deny" :> Arr(<<Ls>>))))] }

SourceNames == {s.name : s \in Sources}

(***************************************************************************)
(* The merge and unmerge commands, run on one named context.  doc is the   *)
(* context's settings file, hist its merge-history file (a missing file    *)
(* loads as the empty history); last records what the latest command did.  *)
(***************************************************************************)
Init ==
    /\ doc \in TargetDocs
    /\ hist = <<>>
    /\ nOps = 0
    /\ last = [op |-> "init", name |-> "", src |-> None, pre |-> doc,
               preHist |-> <<>>, kind |-> "ok", post |-> doc, rec |-> None,
               fail |-> "none"]
    /\ fs = <<>> /\ cmd = <<>> /\ nCmds = 0
    /\ inv = <<>> /\ wrote = <<>>

\* the fallible file operations of merge_from / merge_from_full after the
\* merge: fs::write of the target, load_history, save_history
MergeFailures == {"none", "write_target", "load_history", "save_history"}

\* the fallible file operations of unmerge_from / unmerge_from_full
UnmergeFailures == {"none", "load_history", "save_history", "write_target"}

\* merge_from and merge_from_full differ in the engine function only
MergeCommand(op, name, src, out, fail) ==
    /\ out.kind # "ok" => fail = "none"
    /\ nOps' = nOps + 1
    \* "Save updated target"
    /\ doc' = IF out.kind = "ok" /\ fail # "write_target" THEN out.target ELSE doc
    \* "Update history": load_history, push, save_history
    /\ hist' = IF out.kind = "ok" /\ fail = "none" THEN Append(hist, out.rec) ELSE hist
    /\ last' = [op |-> op, name |-> name, src |-> src, pre |-> doc,
                preHist |-> hist, kind |-> out.kind, post |-> out.target,
                rec |-> out.rec, fail |-> fail]
    /\ UNCHANGED <<fsVars, raceVars>>

merge_from ==
    /\ nOps < MaxOps
    /\ \E s \in Sources :
        \E out \in MergePermissions(doc, s.doc, s.name, nOps + 1) :
            \E fail \in MergeFailures :
                MergeCommand("merge", s.name, s.doc, out, fail)

merge_from_full ==
    /\ nOps < MaxOps
    /\ \E s \in Sources :
        \E out \in MergeFull(doc, s.doc, s.name, nOps + 1) :
            \E fail \in MergeFailures :
                MergeCommand("merge_full", s.name, s.doc, out, fail)

\* unmerge_from and unmerge_from_full: the engine function loads the history,
\* edits the target in memory and saves the filtered history; the command
\* then writes the target
UnmergeCommand(op, name, post, fail) ==
    /\ nOps' = nOps + 1
    /\ hist' = IF fail \in {"load_history", "save_history"}
               THEN hist ELSE UpdatedHistory(hist, name)
    /\ doc' = IF fail = "none" THEN post ELSE doc
    /\ last' = [op |-> op, name |-> name, src |-> None, pre |-> doc,
                preHist |-> hist,
                kind |-> IF fail \in {"load_history", "save_history"} THEN "err" ELSE "ok",
                post |-> IF fail = "load_history" THEN doc ELSE post,
                rec |-> None, fail |-> fail]
    /\ UNCHANGED <<fsVars, raceVars>>

unmerge_from ==
    /\ nOps < MaxOps
    /\ \E name \in SourceNames, fail \in UnmergeFailures :
        UnmergeCommand("unmerge", name, UnmergePermissions(doc, hist, name), fail)

unmerge_from_full ==
    /\ nOps < MaxOps
    /\ \E name \in SourceNames, fail \in UnmergeFailures :
        UnmergeCommand("unmerge_full", name, UnmergeFull(doc, hist, name), fail)

Next ==
    \/ merge_from
    \/ merge_from_full
    \/ unmerge_from
    \/ unmerge_from_full

Spec == Init /\ [][Next]_vars

(***************************************************************************)
(* The files.  fs maps a path to the content of the file: Missing, text    *)
(* that is not JSON (Invalid), or the JSON value the text parses to.       *)
(***************************************************************************)
Missing == [t |-> "missing"]

Invalid == [t |-> "invalid"]

Bool(b) == [t |-> "bool", b |-> b]

\* ContextManager::new_with_level(SettingsLevel::User)
ClaudeSettingsPath == "~/.claude/settings.json"

StatePath == "~/.claude/settings/.cctx-state.json"

\* home_dir.join(".claude").join("settings.json") in merge_from
UserSettingsPath == "~/.claude/settings.json"

\* contexts_dir.join(format!("{name}.json"))
ContextPath(name) == "~/.claude/settings/" \o name \o ".json"

\* get_history_path with every context sharing one file
HistoryPathShared(context_name) == "~/.claude/settings/.merge-history.json"

\* settings_dir.join(format!(".{}-merge-history.json", context_name))
HistoryPath(context_name) ==
    "~/.claude/settings/." \o context_name \o "-merge-history.json"

\* path.exists()
Exists(f, path) == f[path] # Missing

\* str::ends_with
EndsWith(s, suffix) ==
    /\ Len(s) >= Len(suffix)
    /\ SubSeq(s, Len(s) - Len(suffix) + 1, Len(s)) = suffix

\* serde_json::to_string_pretty of one MergeHistory
RecordToJson(h) ==
    Obj(("source" :> Str(h.source))
        @@ ("timestamp" :> Str(h.timestamp))
        @@ ("merged_items" :> Arr([i \in DOMAIN h.merged_items |-> Str(h.merged_items[i])]))
        @@ ("full_merge" :> Bool(h.full_merge)))

\* serde_json::to_string_pretty(history)
HistoryToJson(history) == Arr([i \in DOMAIN history |-> RecordToJson(history[i])])

\* the derived Deserialize of MergeHistory accepts an object that has the
\* four fields with their types
IsRecordJson(e) ==
    /\ e.t = "obj"
    /\ {"source", "timestamp", "merged_items", "full_merge"} \subseteq DOMAIN e.m
    /\ e.m["source"].t = "str"
    /\ e.m["timestamp"].t = "str"
    /\ e.m["merged_items"].t = "arr"
    /\ \A i \in DOMAIN e.m["merged_items"].items : e.m["merged_items"].items[i].t = "str"
    /\ e.m["full_merge"].t = "bool"

\* RecordFromJson reading every record as a scoped one
RecordFromJsonScoped(e) ==
    [source |-> e.m["source"].s,
     timestamp |-> e.m["timestamp"].s,
     merged_items |-> [i \in DOMAIN e.m["merged_items"].items |->
                          e.m["merged_items"].items[i].s],
     full_merge |-> FALSE]

RecordFromJson(e) ==
    [source |-> e.m["source"].s,
     timestamp |-> e.m["timestamp"].s,
     merged_items |-> [i \in DOMAIN e.m["merged_items"].items |->
                          e.m["merged_items"].items[i].s],
     full_merge |-> e.m["full_merge"].b]

\* serde_json::from_str::<Vec<MergeHistory>>
HistoryFromJson(content) ==
    IF content.t = "arr" /\ \A i \in DOMAIN content.items : IsRecordJson(content.items[i])
    THEN [kind |-> "ok",
          history |-> [i \in DOMAIN content.items |-> RecordFromJson(content.items[i])]]
    ELSE [kind |-> "err", history |-> <<>>]

\* load_history
LoadHistory(f, context_name) ==
    IF ~Exists(f, HistoryPath(context_name))
    THEN [kind |-> "ok", history |-> <<>>]
    ELSE HistoryFromJson(f[HistoryPath(context_name)])

\* save_history writing the records after those the file holds
SaveHistoryAppendOnDisk(f, context_name, history) ==
    [f EXCEPT ![HistoryPath(context_name)] =
        HistoryToJson(LoadHistory(f, context_name).history \o history)]

\* save_history
SaveHistory(f, context_name, history) ==
    [f EXCEPT ![HistoryPath(context_name)] = HistoryToJson(history)]

\* State::load, then state.current
GetCurrentContext(f) ==
    LET content == f[StatePath] IN
    IF content = Missing THEN [kind |-> "ok", current |-> None]
    ELSE IF content.t # "obj" THEN [kind |-> "err", current |-> None]
    ELSE LET current == Get(content, "current")
         IN IF current = None \/ current = Null
            THEN [kind |-> "ok", current |-> None]
            ELSE IF current.t = "str"
            THEN [kind |-> "ok", current |-> current]
            ELSE [kind |-> "err", current |-> None]

\* "Get context name for history"
ContextName(f, target_context) ==
    IF target_context = "current"
    THEN LET c == GetCurrentContext(f)
         IN [kind |-> c.kind,
             name |-> IF c.current = None THEN "current" ELSE c.current.s]
    ELSE [kind |-> "ok", name |-> target_context]

\* "Load target context": the path of the target's file
TargetPath(target_context) ==
    IF target_context = "current" THEN ClaudeSettingsPath
    ELSE ContextPath(target_context)

\* "Load source settings": the path of the source's file
SourcePath(source) ==
    IF source = "user" THEN UserSettingsPath
    ELSE IF EndsWith(source, ".json") THEN source
    ELSE ContextPath(source)

(***************************************************************************)
(* The commands on the files of the contexts directory                     *)
(***************************************************************************)
MaxCmds == 2

ContextNames == {"a", "b"}

\* the target_context argument
Targets == ContextNames \cup {"current"}

\* the source argument of merge_from / merge_from_full
MergeSources == ContextNames \cup {"user", "./team.json"}

\* the source argument of unmerge_from / unmerge_from_full
UnmergeSources == {"b", "./team.json"}

Paths ==
    {ClaudeSettingsPath, StatePath, "./team.json"}
    \cup {ContextPath(n) : n \in ContextNames}
    \cup {HistoryPath(n) : n \in Targets}

\* chrono::Local::now().to_rfc3339() at the n-th command
Rfc3339(n) == "2025-01-01T00:00:0" \o <<"0", "1", "2", "3", "4", "5", "6", "7", "8", "9">>[n + 1]

\* a command that stopped at `bail!` or `?`, with the files as it left them
Stopped(kind, f) ==
    [kind |-> kind, fs |-> f, ctx |-> "", rec |-> None, saved |-> <<>>]

\* merge_from / merge_from_full from "Save updated target" on
CommitMerge(f, target_context, out) ==
    IF out.kind # "ok" THEN Stopped(out.kind, f)
    ELSE LET f1 == [f EXCEPT ![TargetPath(target_context)] = out.target]
             cn == ContextName(f1, target_context)
             h == LoadHistory(f1, cn.name)
         IN IF cn.kind # "ok" THEN Stopped("state", f1)
            ELSE IF h.kind # "ok" THEN Stopped("history", f1)
            ELSE [kind |-> "ok",
                  fs |-> SaveHistory(f1, cn.name, Append(h.history, out.rec)),
                  ctx |-> cn.name, rec |-> out.rec,
                  saved |-> Append(h.history, out.rec)]

\* "Load source settings" reading a missing source as an empty document
ReadSourceOrEmpty(f, source) ==
    IF Exists(f, SourcePath(source)) THEN f[SourcePath(source)] ELSE Obj(EmptyMap)

\* "Load source settings": the content of the source's file
ReadSource(f, source) ==
    IF Exists(f, SourcePath(source)) THEN f[SourcePath(source)] ELSE Missing

\* "Parse JSON" reading text that is not JSON as an empty document
ParseOrEmpty(content) == IF content = Invalid THEN Obj(EmptyMap) ELSE content

\* "Parse JSON": serde_json::from_str::<Value>, None for the parse error
Parse(content) == IF content = Invalid THEN None ELSE content

\* the outcomes of merge_from (full = FALSE) and merge_from_full (full = TRUE)
MergeOutcomes(f, target_context, source, now, full) ==
    IF ~Exists(f, TargetPath(target_context)) THEN {Stopped("not_found", f)}
    ELSE IF ReadSource(f, source) = Missing THEN {Stopped("not_found", f)}
    ELSE LET target_json == Parse(f[TargetPath(target_context)])
             source_json == Parse(ReadSource(f, source))
         IN IF target_json = None \/ source_json = None THEN {Stopped("parse", f)}
            ELSE {CommitMerge(f, target_context, out) :
                    out \in IF full THEN MergeFull(target_json, source_json, source, now)
                            ELSE MergePermissions(target_json, source_json, source, now)}

\* the outcome of unmerge_from (full = FALSE) and unmerge_from_full
UnmergeOutcome(f, target_context, source, full) ==
    IF ~Exists(f, TargetPath(target_context)) THEN Stopped("not_found", f)
    ELSE LET target_json == Parse(f[TargetPath(target_context)])
             cn == ContextName(f, target_context)
             h == LoadHistory(f, cn.name)
         IN IF target_json = None THEN Stopped("parse", f)
            ELSE IF cn.kind # "ok" THEN Stopped("state", f)
            ELSE IF h.kind # "ok" THEN Stopped("history", f)
            ELSE LET post == IF full THEN UnmergeFull(target_json, h.history, source)
                             ELSE UnmergePermissions(target_json, h.history, source)
                     f1 == SaveHistory(f, cn.name, UpdatedHistory(h.history, source))
                 IN [kind |-> "ok",
                     fs |-> [f1 EXCEPT ![TargetPath(target_context)] = post],
                     ctx |-> cn.name, rec |-> None,
                     saved |-> UpdatedHistory(h.history, source)]

\* the active settings file and the state file: nothing yet, settings the
\* user wrote without a context being current, or what switch_context leaves
\* after switching to context a (a copy of a's file, state.current = a)
ActiveFiles(a) ==
    {[settings |-> Missing, state |-> Missing],
     [settings |-> Obj(Theme("dark")), state |-> Missing]}
    \cup (IF a = Missing THEN {}
          ELSE {[settings |-> a,
                 state |-> Obj(("current" :> Str("a")) @@ ("previous" :> Null))]})

\* what the files are when the first command runs: contexts created or
\* imported by the user (import_context checks only that the text is JSON;
\* a file edited by hand can hold anything), no history yet
InitialFiles ==
    UNION {
        {[p \in Paths |->
            CASE p = ContextPath("a") -> a
              [] p = ContextPath("b") -> b
              [] p = "./team.json" -> team
              [] p = ClaudeSettingsPath -> active.settings
              [] p = StatePath -> active.state
              [] OTHER -> Missing] :
         b \in {Missing, Invalid, Obj(Perms(Arr(<<Rm>>), Arr(<<Ls>>)))},
         team \in {Missing, Obj(Theme("light") @@ Perms(Arr(<<Ls>>), Arr(<<>>)))},
         active \in ActiveFiles(a)} :
        a \in {Missing, Obj(EmptyMap), Obj(Perms(Arr(<<Ls>>), Str("none")))}}

InitFs ==
    /\ fs \in InitialFiles
    /\ nCmds = 0
    /\ cmd = [op |-> "init", target |-> "", source |-> "", pre |-> fs,
              kind |-> "ok", ctx |-> "", rec |-> None, saved |-> <<>>]
    /\ doc = Obj(EmptyMap) /\ hist = <<>> /\ nOps = 0 /\ last = <<>>
    /\ inv = <<>> /\ wrote = <<>>

Command(op, target_context, source, out) ==
    /\ nCmds' = nCmds + 1
    /\ fs' = out.fs
    /\ cmd' = [op |-> op, target |-> target_context, source |-> source, pre |-> fs,
               kind |-> out.kind, ctx |-> out.ctx, rec |-> out.rec,
               saved |-> out.saved]
    /\ UNCHANGED <<vars, raceVars>>

MergeFrom ==
    /\ nCmds < MaxCmds
    /\ \E target_context \in Targets, source \in MergeSources :
        \E out \in MergeOutcomes(fs, target_context, source, Rfc3339(nCmds + 1), FALSE) :
            Command("merge", target_context, source, out)

MergeFromFull ==
    /\ nCmds < MaxCmds
    /\ \E target_context \in Targets, source \in MergeSources :
        \E out \in MergeOutcomes(fs, target_context, source, Rfc3339(nCmds + 1), TRUE) :
            Command("merge_full", target_context, source, out)

UnmergeFrom ==
    /\ nCmds < MaxCmds
    /\ \E target_context \in Targets, source \in UnmergeSources :
        Command("unmerge", target_context, source,
                UnmergeOutcome(fs, target_context, source, FALSE))

UnmergeFromFull ==
    /\ nCmds < MaxCmds
    /\ \E target_context \in Targets, source \in UnmergeSources :
        Command("unmerge_full", target_context, source,
                UnmergeOutcome(fs, target_context, source, TRUE))

NextFs ==
    \/ MergeFrom
    \/ MergeFromFull
    \/ UnmergeFrom
    \/ UnmergeFromFull

SpecFs == InitFs /\ [][NextFs]_<<vars, fsVars, raceVars>>

(***************************************************************************)
(* The state file and the commands that manage the contexts                *)
(***************************************************************************)
\* State::default()
DefaultState == [current |-> None, previous |-> None]

\* an Option<String> field of State read from the JSON object
OptionFromJson(content, field) ==
    LET v == Get(content, field)
    IN IF v = None \/ v = Null THEN None ELSE v

\* State::load
LoadState(f) ==
    LET content == f[StatePath] IN
    IF content = Missing THEN [kind |-> "ok", state |-> DefaultState]
    ELSE IF content.t # "obj" THEN [kind |-> "err", state |-> DefaultState]
    ELSE LET current == OptionFromJson(content, "current")
             previous == OptionFromJson(content, "previous")
         IN IF current.t \in {"none", "str"} /\ previous.t \in {"none", "str"}
            THEN [kind |-> "ok", state |-> [current |-> current, previous |-> previous]]
            ELSE [kind |-> "err", state |-> DefaultState]

\* serde_json::to_string_pretty(state)
StateToJson(state) ==
    Obj(("current" :> (IF state.current = None THEN Null ELSE state.current))
        @@ ("previous" :> (IF state.previous = None THEN Null ELSE state.previous)))

\* State::save
SaveState(f, state) == [f EXCEPT ![StatePath] = StateToJson(state)]

\* State::set_current that always remembers the former current
SetCurrentAlways(state, context) ==
    [current |-> Str(context),
     previous |-> IF state.current # None THEN state.current ELSE state.previous]

\* State::set_current
SetCurrent(state, context) ==
    [current |-> Str(context),
     previous |-> IF state.current # None /\ state.current # Str(context)
                  THEN state.current ELSE state.previous]

\* State::unset_current: the state it leaves
UnsetCurrent(state) ==
    [current |-> None,
     previous |-> IF state.current # None THEN state.current ELSE state.previous]

\* list_contexts: the stems of the *.json files that are not hidden
ListContexts(f) ==
    {n \in ContextNames : Exists(f, ContextPath(n)) /\ ~StartsWith(n, ".")}

\* the name test of create_context, import_context and rename_context
ValidName(name) == name \notin {"", "-", ".", ".."} /\ \A i \in 1..Len(name) : SubSeq(name, i, i) # "/"

\* a command that stopped, and one that completed, with the files it leaves
Failed(kind, f) == [kind |-> kind, fs |-> f]

Done(f) == [kind |-> "ok", fs |-> f]

\* switch_context
SwitchContext(f, name) ==
    IF name \notin ListContexts(f) THEN Failed("not_found", f)
    ELSE IF LoadState(f).kind # "ok" THEN Failed("state", f)
    ELSE LET state == SetCurrent(LoadState(f).state, name)
             content == f[ContextPath(name)]
         IN Done(SaveState([f EXCEPT ![ClaudeSettingsPath] = content], state))

\* switch_to_previous reading the current name instead of the previous one
SwitchToCurrent(f) ==
    IF LoadState(f).kind # "ok" THEN Failed("state", f)
    ELSE IF LoadState(f).state.current = None THEN Failed("no_previous", f)
    ELSE SwitchContext(f, LoadState(f).state.current.s)

\* switch_to_previous
SwitchToPrevious(f) ==
    IF LoadState(f).kind # "ok" THEN Failed("state", f)
    ELSE IF LoadState(f).state.previous = None THEN Failed("no_previous", f)
    ELSE SwitchContext(f, LoadState(f).state.previous.s)

\* create_context
CreateContext(f, name) ==
    IF ~ValidName(name) THEN Failed("invalid_name", f)
    ELSE IF name \in ListContexts(f) THEN Failed("exists", f)
    ELSE IF Exists(f, ClaudeSettingsPath)
    THEN Done([f EXCEPT ![ContextPath(name)] = f[ClaudeSettingsPath]])
    ELSE Done([f EXCEPT ![ContextPath(name)] = Obj(EmptyMap)])

\* import_context, buffer being what stdin holds
ImportContext(f, name, buffer) ==
    IF ~ValidName(name) THEN Failed("invalid_name", f)
    ELSE IF name \in ListContexts(f) THEN Failed("exists", f)
    ELSE IF Parse(buffer) = None THEN Failed("parse", f)
    ELSE Done([f EXCEPT ![ContextPath(name)] = buffer])

\* delete_context leaving the state file as it is
DeleteContextKeepingState(f, name) ==
    LET loaded == LoadState(f) IN
    IF loaded.kind # "ok" THEN Failed("state", f)
    ELSE IF loaded.state.current = Str(name) THEN Failed("active", f)
    ELSE IF ~Exists(f, ContextPath(name)) THEN Failed("not_found", f)
    ELSE Done([f EXCEPT ![ContextPath(name)] = Missing])

\* delete_context
DeleteContext(f, name) ==
    LET loaded == LoadState(f) IN
    IF loaded.kind # "ok" THEN Failed("state", f)
    ELSE IF loaded.state.current = Str(name) THEN Failed("active", f)
    ELSE IF ~Exists(f, ContextPath(name)) THEN Failed("not_found", f)
    ELSE LET f1 == [f EXCEPT ![ContextPath(name)] = Missing]
         IN IF loaded.state.previous = Str(name)
            THEN Done(SaveState(f1, [loaded.state EXCEPT !.previous = None]))
            ELSE Done(f1)

\* "Update state if needed" of rename_context
RenamedState(state, old_name, new_name) ==
    [current |-> IF state.current = Str(old_name) THEN Str(new_name) ELSE state.current,
     previous |-> IF state.previous = Str(old_name) THEN Str(new_name) ELSE state.previous]

\* rename_context
RenameContext(f, old_name, new_name) ==
    IF ~ValidName(new_name) THEN Failed("invalid_name", f)
    ELSE IF old_name \notin ListContexts(f) THEN Failed("not_found", f)
    ELSE IF new_name \in ListContexts(f) THEN Failed("exists", f)
    ELSE LET f1 == [f EXCEPT ![ContextPath(new_name)] = f[ContextPath(old_name)],
                             ![ContextPath(old_name)] = Missing]
             loaded == LoadState(f1)
         IN IF loaded.kind # "ok" THEN Failed("state", f1)
            ELSE IF Str(old_name) \in {loaded.state.current, loaded.state.previous}
            THEN Done(SaveState(f1, RenamedState(loaded.state, old_name, new_name)))
            ELSE Done(f1)

\* unset_context
UnsetContext(f) ==
    LET f1 == [f EXCEPT ![ClaudeSettingsPath] = Missing]
        loaded == LoadState(f1)
    IN IF loaded.kind # "ok" THEN Failed("state", f1)
       ELSE IF loaded.state.current # None
       THEN Done(SaveState(f1, UnsetCurrent(loaded.state)))
       ELSE Done(f1)

\* the files when the first command runs: context a exists, b may; then
\* possibly context b made current and a again (so that previous is set),
\* and possibly a scoped merge from b into a (so that a has a history)
PlainFiles ==
    {f \in InitialFiles :
        /\ f[ContextPath("a")] = Obj(EmptyMap)
        /\ f[ContextPath("b")] # Invalid
        /\ ~Exists(f, "./team.json")}

SwitchedFiles ==
    {SwitchContext(SwitchContext(f, "b").fs, "a").fs :
        f \in {g \in PlainFiles : Exists(g, ContextPath("b"))}}

MergedFiles ==
    UNION {{out.fs : out \in {o \in MergeOutcomes(f, "a", "b", Rfc3339(0), FALSE) :
                                 o.kind = "ok"}} :
           f \in {g \in PlainFiles \cup SwitchedFiles : Exists(g, ContextPath("b"))}}

CtxFiles == PlainFiles \cup SwitchedFiles \cup MergedFiles

InitCtx ==
    /\ fs \in CtxFiles
    /\ nCmds = 0
    /\ cmd = [op |-> "init", target |-> "", source |-> "", pre |-> fs,
              kind |-> "ok", ctx |-> "", rec |-> None, saved |-> <<>>]
    /\ doc = Obj(EmptyMap) /\ hist = <<>> /\ nOps = 0 /\ last = <<>>
    /\ inv = <<>> /\ wrote = <<>>

\* one run of a context command: name, and new_name for a rename
ContextCommand(op, name, new_name, out) ==
    /\ nCmds' = nCmds + 1
    /\ fs' = out.fs
    /\ cmd' = [op |-> op, target |-> name, source |-> new_name, pre |-> fs,
               kind |-> out.kind, ctx |-> "", rec |-> None, saved |-> <<>>]
    /\ UNCHANGED <<vars, raceVars>>

switch_context ==
    /\ nCmds < MaxCmds
    /\ \E name \in ContextNames :
        ContextCommand("switch", name, "", SwitchContext(fs, name))

switch_to_previous ==
    /\ nCmds < MaxCmds
    /\ ContextCommand("switch_previous", "-", "", SwitchToPrevious(fs))

create_context ==
    /\ nCmds < MaxCmds
    /\ \E name \in ContextNames \cup {"-"} :
        ContextCommand("create", name, "", CreateContext(fs, name))

import_context ==
    /\ nCmds < MaxCmds
    /\ \E name \in ContextNames, buffer \in {Invalid, Obj(Theme("dark"))} :
        ContextCommand("import", name, "", ImportContext(fs, name, buffer))

delete_context ==
    /\ nCmds < MaxCmds
    /\ \E name \in ContextNames :
        ContextCommand("delete", name, "", DeleteContext(fs, name))

rename_context ==
    /\ nCmds < MaxCmds
    /\ \E old_name, new_name \in ContextNames :
        ContextCommand("rename", old_name, new_name, RenameContext(fs, old_name, new_name))

unset_context ==
    /\ nCmds < MaxCmds
    /\ ContextCommand("unset", "", "", UnsetContext(fs))

NextCtx ==
    \/ switch_context
    \/ switch_to_previous
    \/ create_context
    \/ import_context
    \/ delete_context
    \/ rename_context
    \/ unset_context
    \/ MergeFrom
    \/ MergeFromFull
    \/ UnmergeFrom
    \/ UnmergeFromFull

SpecCtx == InitCtx /\ [][NextCtx]_<<vars, fsVars, raceVars>>

(***************************************************************************)
(* Two invocations of a merge command running at once on the same target.  *)
(* Nothing locks the files, so the file operations of the two processes    *)
(* interleave: each process reads and merges, writes the target, loads the *)
(* history, saves the history.  inv holds what each process has in memory, *)
(* wrote the order in which the writes reached the disk.                   *)
(***************************************************************************)
Invocations == {1, 2}

\* the files the invocations start on: the target context a exists
RaceFiles == {f \in InitialFiles : Exists(f, ContextPath("a"))}

InitRace ==
    /\ fs \in RaceFiles
    /\ \E target_context \in {"a", "current"} :
          inv \in [Invocations ->
                     {[pc |-> "start", full |-> full, target |-> target_context,
                       source |-> source, target_json |-> None, entry |-> None,
                       ctx |-> "", history |-> <<>>] :
                      full \in BOOLEAN, source \in {"b", "./team.json"}}]
    /\ wrote = <<>>
    /\ cmd = <<>> /\ nCmds = 0
    /\ doc = Obj(EmptyMap) /\ hist = <<>> /\ nOps = 0 /\ last = <<>>

\* the engine call of an invocation; the clock reading of invocation p is
\* Rfc3339(p)
EngineOutcomes(p, target_json, source_json) ==
    IF inv[p].full
    THEN MergeFull(target_json, source_json, inv[p].source, Rfc3339(p))
    ELSE MergePermissions(target_json, source_json, inv[p].source, Rfc3339(p))

\* merge_from / merge_from_full up to the engine call: the existence checks,
\* the reads of the source and of the target, "Parse JSON", "Perform merge"
ReadAndMerge(p) ==
    /\ inv[p].pc = "start"
    /\ LET target_json == Parse(fs[TargetPath(inv[p].target)])
           source_json == Parse(ReadSource(fs, inv[p].source))
       IN IF \/ ~Exists(fs, TargetPath(inv[p].target))
             \/ ReadSource(fs, inv[p].source) = Missing
             \/ target_json = None
             \/ source_json = None
          THEN inv' = [inv EXCEPT ![p].pc = "failed"]
          ELSE \E out \in EngineOutcomes(p, target_json, source_json) :
                  inv' = [inv EXCEPT ![p].pc = IF out.kind = "ok" THEN "merged"
                                               ELSE "failed",
                                     ![p].target_json = out.target,
                                     ![p].entry = out.rec]
    /\ UNCHANGED <<fs, wrote, cmd, nCmds, vars>>

\* "Save updated target"
WriteTarget(p) ==
    /\ inv[p].pc = "merged"
    /\ fs' = [fs EXCEPT ![TargetPath(inv[p].target)] = inv[p].target_json]
    /\ wrote' = Append(wrote, [p |-> p, file |-> "target"])
    /\ inv' = [inv EXCEPT ![p].pc = "written"]
    /\ UNCHANGED <<cmd, nCmds, vars>>

\* "Update history": the context name and load_history
LoadStep(p) ==
    /\ inv[p].pc = "written"
    /\ LET cn == ContextName(fs, inv[p].target)
           h == LoadHistory(fs, cn.name)
       IN inv' = [inv EXCEPT ![p].pc = IF cn.kind = "ok" /\ h.kind = "ok"
                                        THEN "loaded" ELSE "failed",
                             ![p].ctx = cn.name,
                             ![p].history = h.history]
    /\ UNCHANGED <<fs, wrote, cmd, nCmds, vars>>

\* "Update history": push and save_history
SaveStep(p) ==
    /\ inv[p].pc = "loaded"
    /\ fs' = SaveHistory(fs, inv[p].ctx, Append(inv[p].history, inv[p].entry))
    /\ wrote' = Append(wrote, [p |-> p, file |-> "history"])
    /\ inv' = [inv EXCEPT ![p].pc = "done"]
    /\ UNCHANGED <<cmd, nCmds, vars>>

NextRace ==
    \/ \E p \in Invocations : ReadAndMerge(p)
    \/ \E p \in Invocations : WriteTarget(p)
    \/ \E p \in Invocations : LoadStep(p)
    \/ \E p \in Invocations : SaveStep(p)

SpecRace == InitRace /\ [][NextRace]_<<vars, fsVars, raceVars>>

(***************************************************************************)
(* Vocabulary of the properties                                            *)
(***************************************************************************)
Lists == {"allow", "deny"}

\* the entries of permissions.<list> in a document; none when the list is
\* absent or not an array
ListOf(d, list) ==
    LET a == AsArray(Get(Get(d, "permissions"), list))
    IN IF a = None THEN <<>> ELSE a.items

\* the entries of env in a document
EnvOf(d) ==
    LET e == AsObject(Get(d, "env")) IN IF e = None THEN EmptyMap ELSE e.m

Count(q, v) == Cardinality({i \in DOMAIN q : q[i] = v})

NoDuplicates(q) == \A i, j \in DOMAIN q : q[i] = q[j] => i = j

\* the latest command was a merge whose engine call returned Ok
Merged == last.op \in {"merge", "merge_full"} /\ last.kind = "ok"

\* the merged_items tag of a rule for the latest merge
TagOf(list) ==
    IF last.op = "merge" THEN list \o ":" ELSE "permissions." \o list \o ":"

(***************************************************************************)
(* C1: set semantics of permission merging                                 *)
(***************************************************************************)
SetSemantics(list) ==
    LET post == ListOf(last.post, list)
        union == StrSet(ListOf(last.pre, list)) \cup StrSet(ListOf(last.src, list))
    IN /\ \A i \in DOMAIN post : post[i].t = "str"
       /\ \A r \in union : Count(post, Str(r)) = 1
       /\ Len(post) = Cardinality(union)

\* C1 as stated: after every successful merge_permissions or merge_full, for
\* every target and source, each of allow and deny holds each distinct string
\* once and is as long as the union of the target and source entries
C1_SetSemanticsAlways == Merged => \A list \in Lists : SetSemantics(list)

\* C1 amended: the same for each list that the source supplies as an array
C1_SetSemantics ==
    Merged =>
        \A list \in Lists :
            SourceList(last.src, list) # None => SetSemantics(list)

\* a merge that deduplicated a target list holding Bash(ls) twice and added
\* Bash(rm) from a source that names it twice
C1_Witness ==
    /\ Merged
    /\ ListOf(last.pre, "allow") = <<Ls, Ls>>
    /\ ListOf(last.src, "allow") = <<Rm, Ls, Rm>>
    /\ Len(ListOf(last.post, "allow")) = 2

(***************************************************************************)
(* C2: the record returned by merge_permissions                            *)
(***************************************************************************)
\* the source strings of a list that the target list did not hold
FreshRules(list) ==
    StrSet(ListOf(last.src, list)) \ StrSet(ListOf(last.pre, list))

\* C2: merge_permissions returns a record with source = source_name,
\* full_merge = false and merged_items exactly the source string entries not
\* already in the target, tagged allow:<rule> / deny:<rule>, each once
C2_ScopedRecord ==
    (last.op = "merge" /\ last.kind = "ok") =>
        /\ last.rec.source = last.name
        /\ last.rec.full_merge = FALSE
        /\ Range(last.rec.merged_items) =
              {"allow:" \o r : r \in FreshRules("allow")}
              \cup {"deny:" \o r : r \in FreshRules("deny")}
        /\ NoDuplicates(last.rec.merged_items)

\* the scenario of the specification: target {} and source allow ["Bash(ls)"]
C2_Witness ==
    /\ last.op = "merge"
    /\ last.name = "teamA"
    /\ last.pre = Obj(EmptyMap)
    /\ last.src = Obj(Perms(Arr(<<Ls>>), Arr(<<>>)))
    /\ last.rec.merged_items = <<"allow:Bash(ls)">>
    /\ last.post = Obj(Perms(Arr(<<Ls>>), Arr(<<>>)))

(***************************************************************************)
(* C3: target-wins policy of merge_full                                    *)
(***************************************************************************)
OtherKeys(d) == (DOMAIN d.m) \ {"permissions", "env"}

\* C3: merge_full keeps the value of every top-level key (other than
\* permissions and env) and of every env entry the target already has, and
\* copies a source value only for a key or env variable the target lacks
C3_TargetWins ==
    (last.op = "merge_full" /\ last.kind = "ok") =>
        /\ \A k \in OtherKeys(last.pre) :
              k \in DOMAIN last.post.m /\ last.post.m[k] = last.pre.m[k]
        /\ \A k \in DOMAIN EnvOf(last.pre) :
              k \in DOMAIN EnvOf(last.post) /\ EnvOf(last.post)[k] = EnvOf(last.pre)[k]
        /\ \A k \in OtherKeys(last.post) \ OtherKeys(last.pre) :
              k \in DOMAIN last.src.m /\ last.post.m[k] = last.src.m[k]
        /\ \A k \in (DOMAIN EnvOf(last.post)) \ (DOMAIN EnvOf(last.pre)) :
              k \in DOMAIN EnvOf(last.src) /\ EnvOf(last.post)[k] = EnvOf(last.src)[k]

\* the scenario of the specification: {"theme":"dark"} merged with
\* {"theme":"light","env":{"X":"1"}} keeps theme dark and gains env.X = "1"
C3_Witness ==
    /\ last.op = "merge_full"
    /\ last.pre = Obj(Theme("dark"))
    /\ last.src = Obj(Theme("light") @@ Env("1"))
    /\ last.post = Obj(Theme("dark") @@ Env("1"))
    /\ last.rec.merged_items = <<"env:X">>

(***************************************************************************)
(* C4: round trip of merge_full and unmerge_full                           *)
(***************************************************************************)
\* a step from the state after a committed merge_full from a source S that
\* had no record in the history to the state after a committed
\* unmerge_full of S
RoundTripStep ==
    /\ last.op = "merge_full" /\ last.kind = "ok" /\ last.fail = "none"
    /\ \A i \in DOMAIN last.preHist : last.preHist[i].source # last.name
    /\ last'.op = "unmerge_full" /\ last'.name = last.name /\ last'.fail = "none"

\* after holds nothing that merged holds and before did not (top-level keys,
\* env entries, rules), and everything before held, with its value
Restored(before, merged, after) ==
    /\ \A k \in (DOMAIN merged.m) \ (DOMAIN before.m) : k \notin DOMAIN after.m
    /\ \A k \in (DOMAIN EnvOf(merged)) \ (DOMAIN EnvOf(before)) :
          k \notin DOMAIN EnvOf(after)
    /\ \A list \in Lists :
          \A v \in Range(ListOf(merged, list)) \ Range(ListOf(before, list)) :
              v \notin Range(ListOf(after, list))
    /\ \A k \in OtherKeys(before) :
          k \in DOMAIN after.m /\ after.m[k] = before.m[k]
    /\ \A k \in DOMAIN EnvOf(before) :
          k \in DOMAIN EnvOf(after) /\ EnvOf(after)[k] = EnvOf(before)[k]
    /\ \A list \in Lists :
          StrSet(ListOf(before, list)) \subseteq StrSet(ListOf(after, list))

\* C4: merge_full from a source without earlier history followed by
\* unmerge_full of that source removes every top-level key, env entry and
\* permission rule the merge introduced and leaves what pre-existed
C4_RoundTrip == [][RoundTripStep => Restored(last.pre, last.post, doc')]_vars

(***************************************************************************)
(* C5: idempotence of merging                                              *)
(***************************************************************************)
\* a step that repeats the committed merge of the state it starts in: same
\* operation, same source name, same source document
RepeatedMergeStep ==
    /\ Merged /\ last.fail = "none"
    /\ last'.op = last.op /\ last'.name = last.name /\ last'.src = last.src
    /\ last'.kind = "ok"

SameBag(p, q) ==
    /\ Len(p) = Len(q)
    /\ \A v \in Range(p) \cup Range(q) : Count(p, v) = Count(q, v)

\* equality of documents up to the order of permissions.allow / deny
SameDocument(d, e) ==
    /\ DOMAIN d.m = DOMAIN e.m
    /\ \A k \in (DOMAIN d.m) \ {"permissions"} : d.m[k] = e.m[k]
    /\ LET p == Get(d, "permissions")
           q == Get(e, "permissions")
       IN IF AsObject(p) = None \/ AsObject(q) = None THEN p = q
          ELSE /\ DOMAIN p.m = DOMAIN q.m
               /\ \A k \in DOMAIN p.m :
                     IF AsArray(p.m[k]) # None /\ AsArray(q.m[k]) # None
                     THEN SameBag(p.m[k].items, q.m[k].items)
                     ELSE p.m[k] = q.m[k]

\* C5: merging the same source a second time in a row leaves the document
\* as the first merge left it (list order ignored) and returns a record with
\* empty merged_items
C5_Idempotent ==
    [][RepeatedMergeStep =>
           /\ last'.rec.merged_items = <<>>
           /\ SameDocument(last'.post, last.post)
           /\ SameDocument(doc', doc)]_vars

\* the second of two merges of the same source: the first one added rules,
\* an env entry and a top-level key to the empty document, the second nothing
C5_Witness ==
    /\ nOps = 2
    /\ last.op = "merge_full" /\ last.kind = "ok" /\ last.name = "teamA"
    /\ Len(hist) = 2
    /\ hist[1].source = "teamA" /\ hist[1].full_merge
    /\ Range(hist[1].merged_items) =
          {"env:X", "theme", "permissions.allow:Bash(rm)",
           "permissions.allow:Bash(ls)", "permissions.deny:Bash(rm)"}
    /\ hist[2].merged_items = <<>>
    /\ "theme" \in DOMAIN last.src.m
    /\ SameDocument(doc, last.pre)

(***************************************************************************)
(* C6: the type-mismatch error of merge_permissions                        *)
(***************************************************************************)
\* permissions.<list> exists in the document and is not an array
ExistsNotArray(d, list) ==
    LET v == Get(Get(d, "permissions"), list) IN v # None /\ v.t # "arr"

\* C6: merge_permissions fails with the type-mismatch error exactly when
\* permissions.allow or permissions.deny of the target exists and is not an
\* array, in particular not when the target lacks the list
C6_TypeMismatch ==
    last.op = "merge" =>
        (last.kind = "err" <=> \E list \in Lists : ExistsNotArray(last.pre, list))

(***************************************************************************)
(* C7: no partial writes                                                   *)
(***************************************************************************)
\* the history the latest command was to leave on disk
NewHistory ==
    IF last.op \in {"merge", "merge_full"}
    THEN Append(last.preHist, last.rec)
    ELSE SelectSeq(last.preHist, LAMBDA h : h.source # last.name)

\* C7: after every merge or unmerge command, failed or not, the settings
\* file and the history file are either both as the command was to leave
\* them or both as they were before it
C7_NoPartialWrites ==
    last.op # "init" =>
        \/ doc = last.pre /\ hist = last.preHist
        \/ last.kind = "ok" /\ doc = last.post /\ hist = NewHistory

(***************************************************************************)
(* C8, C9: unmerge_permissions                                             *)
(***************************************************************************)
\* the merged_items of the records of the history before the latest command
\* that satisfy keep
RecordedItems(keep(_)) ==
    {it \in UNION {Range(last.preHist[i].merged_items) : i \in DOMAIN last.preHist} :
        \E i \in DOMAIN last.preHist :
            keep(last.preHist[i]) /\ it \in Range(last.preHist[i].merged_items)}

\* the items recorded for the source of the latest command
ItemsOfSource == RecordedItems(LAMBDA h : h.source = last.name)

\* q is p with exactly the entries satisfying gone taken out
Without(p, q, gone(_)) ==
    /\ \A v \in Range(p) : Count(q, v) = IF gone(v) THEN 0 ELSE Count(p, v)
    /\ Range(q) \subseteq Range(p)

\* the rule v carries the tag prefix in the set items
TaggedIn(items, prefix, v) == v.t = "str" /\ (prefix \o v.s) \in items

\* C8: unmerge_permissions(target, ctx, S) removes from permissions.allow
\* every rule r with allow:r among the merged_items of the records of S,
\* likewise for deny with deny:r, and removes no other rule
C8_UnmergeRemoves ==
    (last.op = "unmerge" /\ last.kind = "ok") =>
        \A list \in Lists :
            Without(ListOf(last.pre, list), ListOf(last.post, list),
                    LAMBDA v : TaggedIn(ItemsOfSource, list \o ":", v))

\* the scenario of the specification, with a rule of another source left in
\* place: teamA's Bash(ls) is removed from allow, teamB's stays in deny
C8_Witness ==
    /\ last.op = "unmerge" /\ last.kind = "ok" /\ last.name = "teamA"
    /\ ListOf(last.pre, "allow") = <<Ls>>
    /\ ListOf(last.pre, "deny") = <<Ls>>
    /\ "allow:Bash(ls)" \in ItemsOfSource
    /\ \E i \in DOMAIN last.preHist :
          /\ last.preHist[i].source = "teamB"
          /\ "deny:Bash(ls)" \in Range(last.preHist[i].merged_items)
    /\ ListOf(doc, "allow") = <<>>
    /\ ListOf(doc, "deny") = <<Ls>>

\* q is the subsequence of p made of the elements satisfying keep
Subsequence(p, q, keep(_)) ==
    /\ Len(q) = Cardinality({i \in DOMAIN p : keep(p[i])})
    /\ \E f \in [DOMAIN q -> DOMAIN p] :
          /\ \A i \in DOMAIN q : p[f[i]] = q[i] /\ keep(q[i])
          /\ \A i, j \in DOMAIN q : i < j => f[i] < f[j]

\* C9: after unmerge_permissions(target, ctx, S) the history holds no record
\* of S, scoped or full, and the records of the other sources unmodified in
\* their order
C9_HistoryFiltered ==
    (last.op = "unmerge" /\ last.kind = "ok") =>
        /\ \A i \in DOMAIN hist : hist[i].source # last.name
        /\ Subsequence(last.preHist, hist, LAMBDA h : h.source # last.name)

\* a scoped unmerge of teamA from a history that held a record of teamB
\* followed by a full-merge record of teamA
C9_Witness ==
    /\ last.op = "unmerge" /\ last.kind = "ok" /\ last.name = "teamA"
    /\ Len(last.preHist) = 2
    /\ last.preHist[1].source = "teamB"
    /\ last.preHist[2].source = "teamA" /\ last.preHist[2].full_merge
    /\ last.preHist[2].merged_items # <<>>
    /\ hist = <<last.preHist[1]>>

(***************************************************************************)
(* C10: unmerge_full                                                       *)
(***************************************************************************)
\* the items of the full-merge records of the source of the latest command
FullItemsOfSource == RecordedItems(LAMBDA h : h.source = last.name /\ h.full_merge)

\* the items of the full-merge records of the other sources
FullItemsOfOthers == RecordedItems(LAMBDA h : h.source # last.name /\ h.full_merge)

\* what the items of the full-merge records of S remove: top-level keys by
\* name, env entries by env:<key>, rules by permissions.<list>:<rule>; a
\* rule is also removed by the scoped unmerge that unmerge_full runs last
RemovesOwnItems ==
    /\ DOMAIN last.post.m = (DOMAIN last.pre.m) \ FullItemsOfSource
    /\ \A k \in OtherKeys(last.post) : last.post.m[k] = last.pre.m[k]
    /\ DOMAIN EnvOf(last.post) =
          {k \in DOMAIN EnvOf(last.pre) : ("env:" \o k) \notin FullItemsOfSource}
    /\ \A k \in DOMAIN EnvOf(last.post) : EnvOf(last.post)[k] = EnvOf(last.pre)[k]
    /\ \A list \in Lists :
          Without(ListOf(last.pre, list), ListOf(last.post, list),
                  LAMBDA v : \/ TaggedIn(FullItemsOfSource, "permissions." \o list \o ":", v)
                             \/ TaggedIn(ItemsOfSource, list \o ":", v))

\* what an item of a full merge of another source names (a top-level key,
\* an env entry or a rule) and the target holds is still in the target
KeepsItemsOfOthers ==
    \A it \in FullItemsOfOthers :
        /\ (StartsWith(it, "env:") /\ StripPrefix(it, "env:") \in DOMAIN EnvOf(last.pre))
              => StripPrefix(it, "env:") \in DOMAIN EnvOf(last.post)
        /\ \A list \in Lists :
              LET tag == "permissions." \o list \o ":" IN
              (StartsWith(it, tag) /\ Str(StripPrefix(it, tag)) \in Range(ListOf(last.pre, list)))
                  => Str(StripPrefix(it, tag)) \in Range(ListOf(last.post, list))
        /\ it \in DOMAIN last.pre.m => it \in DOMAIN last.post.m

\* C10: unmerge_full(target, ctx, S) removes the top-level keys, env entries
\* and permissions.* rules named by the merged_items of the full-merge
\* records of S, and nothing recorded by the full merges of other sources
C10_UnmergeFull ==
    (last.op = "unmerge_full" /\ last.kind = "ok") =>
        RemovesOwnItems /\ KeepsItemsOfOthers

(***************************************************************************)
(* C11: a full unmerge also undoes the scoped merges of the source         *)
(***************************************************************************)
\* the rules of a list that the scoped records of the unmerged source name
ScopedRulesOfSource(list) ==
    {r \in StrSet(ListOf(last.pre, list)) :
        \E i \in DOMAIN last.preHist :
            /\ last.preHist[i].source = last.name
            /\ ~last.preHist[i].full_merge
            /\ (list \o ":" \o r) \in Range(last.preHist[i].merged_items)}

\* C11: after a completed unmerge_full of source S, whatever scoped and full
\* merges from S came before, the history holds no record from S, scoped
\* records included, and the target holds none of the permission rules that
\* the scoped records of S name
C11_FullUnmergeClearsScoped ==
    (last.op = "unmerge_full" /\ last.fail = "none") =>
        /\ \A i \in DOMAIN hist : hist[i].source # last.name
        /\ \A list \in Lists :
              \A r \in ScopedRulesOfSource(list) :
                  Str(r) \notin Range(ListOf(doc, list))

\* unmerge_full of teamA after a scoped merge that added Bash(ls) and a full
\* merge that added theme: both records and the scoped rule are gone
C11_Witness ==
    /\ last.op = "unmerge_full" /\ last.fail = "none"
    /\ "Bash(ls)" \in ScopedRulesOfSource("allow")
    /\ \E i \in DOMAIN last.preHist :
          /\ last.preHist[i].source = last.name
          /\ last.preHist[i].full_merge
          /\ "theme" \in Range(last.preHist[i].merged_items)
    /\ Str("Bash(ls)") \notin Range(ListOf(doc, "allow"))
    /\ hist = <<>>

(***************************************************************************)
(* C12: unmerging a source that has no record                              *)
(***************************************************************************)
Unmerges == {"unmerge", "unmerge_full"}

\* the history before the latest command held no record of its source
UnknownSource == \A i \in DOMAIN last.preHist : last.preHist[i].source # last.name

\* an unmerge of the source that the latest, completed, unmerge was for
RepeatedUnmergeStep ==
    /\ last.op \in Unmerges /\ last.fail = "none"
    /\ last'.op \in Unmerges /\ last'.fail = "none"
    /\ last'.name = last.name

\* C12: an unmerge_permissions or unmerge_full of a source without a record
\* in the history completes without error and leaves the target document and
\* the records of the other sources as they were; an unmerge repeated for the
\* same source changes nothing
C12_UnknownSourceNoOp ==
    /\ []((last.op \in Unmerges /\ last.fail = "none" /\ UnknownSource) =>
            /\ last.kind = "ok"
            /\ doc = last.pre
            /\ hist = last.preHist)
    /\ [][RepeatedUnmergeStep => (doc' = doc /\ hist' = hist)]_vars

\* unmerge of teamA, which has no record, from a target whose allow list has
\* a non-string entry, while the history holds a record of teamB that added
\* something
C12_Witness ==
    /\ last.op \in Unmerges /\ last.fail = "none" /\ UnknownSource
    /\ last.name = "teamA"
    /\ Num(1) \in Range(ListOf(last.pre, "allow"))
    /\ \E i \in DOMAIN hist : hist[i].source = "teamB" /\ hist[i].merged_items # <<>>
    /\ doc = last.pre

(***************************************************************************)
(* C13: merges are additive                                                *)
(***************************************************************************)
\* C13: after a successful merge_permissions or merge_full every top-level
\* key outside permissions and env, every env entry and every element of
\* permissions.allow and permissions.deny that the target held before the
\* merge is still in the target, with the same value
C13_Additive ==
    Merged =>
        /\ \A k \in DOMAIN last.pre.m \ {"permissions", "env"} :
              Get(last.post, k) = last.pre.m[k]
        /\ \A k \in DOMAIN EnvOf(last.pre) :
              k \in DOMAIN EnvOf(last.post) /\ EnvOf(last.post)[k] = EnvOf(last.pre)[k]
        /\ \A list \in Lists :
              Range(ListOf(last.pre, list)) \subseteq Range(ListOf(last.post, list))

(***************************************************************************)
(* C14: the record returned by merge_full                                  *)
(***************************************************************************)
\* what the latest merge_full added, as provenance keys
FullMergeAdded ==
    UNION {
        {"permissions." \o list \o ":" \o r : r \in FreshRules(list)} : list \in Lists}
    \cup {"env:" \o k : k \in DOMAIN EnvOf(last.src) \ DOMAIN EnvOf(last.pre)}
    \cup {k \in OtherKeys(last.src) : k \notin DOMAIN last.pre.m}

\* C14: merge_full returns a record with full_merge = true whose merged_items
\* are exactly permissions.allow:<r> / permissions.deny:<r> for each rule it
\* added, env:<key> for each env variable the target lacked and the bare name
\* of each other top-level key the target lacked; what it skipped is not
\* recorded
C14_FullRecord ==
    (last.op = "merge_full" /\ last.kind = "ok") =>
        /\ last.rec.source = last.name
        /\ last.rec.full_merge
        /\ Range(last.rec.merged_items) = FullMergeAdded

\* a full merge that added a rule to each list and an env variable, and
\* skipped theme and Bash(ls), which the target already had
C14_Witness ==
    /\ last.op = "merge_full" /\ last.kind = "ok"
    /\ Get(last.pre, "theme") = Str("dark")
    /\ Ls \in Range(ListOf(last.pre, "allow"))
    /\ Range(last.rec.merged_items) =
          {"permissions.allow:Bash(rm)", "permissions.deny:Bash(rm)", "env:X"}

(***************************************************************************)
(* C15: unmerge_permissions touches the permission lists only              *)
(***************************************************************************)
\* a scoped record of the unmerged source names the rule of the list
ScopedRecordNames(list, r) ==
    \E i \in DOMAIN last.preHist :
        /\ last.preHist[i].source = last.name
        /\ ~last.preHist[i].full_merge
        /\ (list \o ":" \o r) \in Range(last.preHist[i].merged_items)

\* C15: unmerge_permissions leaves every top-level key other than permissions,
\* env included, as it was, only removes entries from permissions.allow and
\* permissions.deny, and keeps every rule that no scoped merge of the source
\* recorded, so the rules that only a full merge added stay
C15_ScopedUnmergeOnlyRules ==
    (last.op = "unmerge" /\ last.fail = "none") =>
        /\ DOMAIN last.post.m = DOMAIN last.pre.m
        /\ \A k \in DOMAIN last.pre.m \ {"permissions"} : last.post.m[k] = last.pre.m[k]
        /\ \A list \in Lists :
              LET p == ListOf(last.pre, list)
                  q == ListOf(last.post, list)
              IN /\ Range(q) \subseteq Range(p)
                 /\ \A i \in DOMAIN p :
                       (p[i].t = "str" /\ ~ScopedRecordNames(list, p[i].s)) =>
                           Count(q, p[i]) = Count(p, p[i])

(***************************************************************************)
(* C18: merge_permissions ensures the permissions object                   *)
(***************************************************************************)
\* C18: after a successful merge_permissions a target that had no permissions
\* key has a permissions object with exactly the arrays allow and deny, each
\* holding the string rules the source supplies for it and nothing else (so
\* both are empty when the source has no permissions); a target that had a
\* permissions object keeps it, with the same keys and with every list the
\* source does not supply unchanged (a permissions value that is not an
\* object is kept as it is)
C18_EnsuresPermissions ==
    (last.op = "merge" /\ last.kind = "ok") =>
        LET before == Get(last.pre, "permissions")
            after == Get(last.post, "permissions")
        IN IF before = None
           THEN /\ after.t = "obj"
                /\ DOMAIN after.m = Lists
                /\ \A list \in Lists :
                      /\ after.m[list].t = "arr"
                      /\ Range(after.m[list].items) =
                            {Str(r) : r \in StrSet(ListOf(last.src, list))}
           ELSE IF before.t = "obj"
           THEN /\ after.t = "obj"
                /\ DOMAIN after.m = DOMAIN before.m
                /\ \A list \in DOMAIN before.m :
                      SourceList(last.src, list) = None =>
                          after.m[list] = before.m[list]
           ELSE after = before

\* a merge into a target without permissions from a source without
\* permissions
C18_Witness ==
    /\ last.op = "merge" /\ last.kind = "ok"
    /\ Get(last.pre, "permissions") = None
    /\ Get(last.src, "permissions") = None
    /\ Get(last.pre, "theme") = Str("dark")
    /\ Get(last.post, "permissions") = DefaultPermissions
    /\ Get(doc, "permissions") = DefaultPermissions

(***************************************************************************)
(* C16: an aborted merge commits nothing                                   *)
(***************************************************************************)
Merges == {"merge", "merge_full"}

\* the latest command found its target file and, for a merge, its source file
FilesFound ==
    /\ cmd.op # "init"
    /\ Exists(cmd.pre, TargetPath(cmd.target))
    /\ cmd.op \in Merges => Exists(cmd.pre, SourcePath(cmd.source))

\* the target or the source of the latest merge was not valid JSON
InvalidInput ==
    \/ cmd.pre[TargetPath(cmd.target)] = Invalid
    \/ cmd.pre[SourcePath(cmd.source)] = Invalid

\* C16: a merge command whose target or source is not valid JSON is aborted,
\* and a merge command aborted for that reason or because the target's
\* permissions.allow or permissions.deny is not an array leaves every file,
\* the target settings file and the history file included, as it was
C16_AbortCommitsNothing ==
    (cmd.op \in Merges /\ FilesFound) =>
        /\ InvalidInput => cmd.kind = "parse"
        /\ cmd.kind \in {"parse", "err"} => fs = cmd.pre

\* a merge from b, which supplies both lists, into a, whose allow list is an
\* array and whose deny is not: the allow list was merged in memory before
\* the type mismatch, and no file changed
C16_Witness ==
    /\ cmd.op \in Merges /\ cmd.kind = "err"
    /\ cmd.target = "a" /\ cmd.source = "b"
    /\ ListOf(cmd.pre[ContextPath("a")], "allow") = <<Ls>>
    /\ ListOf(cmd.pre[ContextPath("b")], "allow") = <<Rm>>
    /\ fs = cmd.pre

(***************************************************************************)
(* C17: missing files                                                      *)
(***************************************************************************)
\* C17: a merge or unmerge whose target has no file, and a merge whose source
\* (a context name, a .json path or the user settings) has no file, fails and
\* changes no file, and nothing else is reported as not found; a command
\* that completes on a context without a history file has read its history
\* as empty
C17_MissingFiles ==
    cmd.op # "init" =>
        /\ ~FilesFound => (cmd.kind = "not_found" /\ fs = cmd.pre)
        /\ cmd.kind = "not_found" => ~FilesFound
        /\ (cmd.kind = "ok" /\ ~Exists(cmd.pre, HistoryPath(cmd.ctx))) =>
              cmd.saved = IF cmd.op \in Merges THEN <<cmd.rec>> ELSE <<>>

\* a merge into the existing context a from a file that does not exist
C17_Witness ==
    /\ cmd.op \in Merges /\ cmd.kind = "not_found"
    /\ cmd.target = "a" /\ Exists(cmd.pre, ContextPath("a"))
    /\ cmd.source = "./team.json" /\ ~Exists(cmd.pre, "./team.json")
    /\ fs = cmd.pre

(***************************************************************************)
(* C19: the history store                                                  *)
(***************************************************************************)
\* C19: after a completed command, load_history of its context returns the
\* records the command gave to save_history, in that order, whatever the
\* file held before, and the history file of every other context is as it
\* was; a context whose history was never saved loads as the empty sequence,
\* so the first merge saves its own record alone
C19_HistoryRoundTrip ==
    cmd.kind = "ok" /\ cmd.op # "init" =>
        /\ LoadHistory(fs, cmd.ctx) = [kind |-> "ok", history |-> cmd.saved]
        /\ \A n \in Targets \ {cmd.ctx} : fs[HistoryPath(n)] = cmd.pre[HistoryPath(n)]
        /\ (cmd.op \in Merges /\ ~Exists(cmd.pre, HistoryPath(cmd.ctx))) =>
              cmd.saved = <<cmd.rec>>

\* the second merge into a context: it loaded the record the first merge
\* saved and saved both
C19_Witness ==
    /\ cmd.kind = "ok" /\ cmd.op \in Merges
    /\ Len(cmd.saved) = 2
    /\ cmd.saved[1].timestamp = Rfc3339(1) /\ cmd.saved[2] = cmd.rec
    /\ cmd.saved[1].merged_items # <<>>
    /\ LoadHistory(cmd.pre, cmd.ctx).history = <<cmd.saved[1]>>
    /\ LoadHistory(fs, cmd.ctx).history = cmd.saved

(***************************************************************************)
(* C20: two merge commands at once                                         *)
(***************************************************************************)
BothDone == \A p \in Invocations : inv[p].pc = "done"

\* the invocation whose write of the file reached the disk last
LastWriter(file) ==
    LET at == {i \in DOMAIN wrote : wrote[i].file = file}
    IN wrote[CHOOSE i \in at : \A j \in at : j <= i].p

\* C20: when two merge commands have run at once on the same context and
\* both completed, the settings file is the document of the invocation that
\* wrote it last and the history file is the list of the invocation that
\* saved last (what it had loaded, plus its own record), whatever the other
\* invocation wrote in between; a run in which the other invocation's rule
\* and record are lost is reachable
C20_LastWriterWins ==
    BothDone =>
        /\ fs[TargetPath(inv[1].target)] = inv[LastWriter("target")].target_json
        /\ fs[HistoryPath(inv[1].ctx)] =
              HistoryToJson(Append(inv[LastWriter("history")].history,
                                   inv[LastWriter("history")].entry))

\* the lost update: both invocations completed, invocation 1 merged and
\* recorded Bash(rm) from b, invocation 2 merged from team.json; the settings
\* file has no Bash(rm) and the history holds the record of invocation 2 only
C20_Witness ==
    /\ BothDone
    /\ inv[1].ctx = inv[2].ctx
    /\ inv[1].source = "b" /\ inv[2].source = "./team.json"
    /\ ~inv[1].full /\ "allow:Bash(rm)" \in Range(inv[1].entry.merged_items)
    /\ inv[2].entry.merged_items # <<>>
    /\ Rm \notin Range(ListOf(fs[TargetPath(inv[1].target)], "allow"))
    /\ LoadHistory(fs, inv[1].ctx).history = <<inv[2].entry>>

(***************************************************************************)
(* C21: how a history changes                                              *)
(***************************************************************************)
\* the records load_history returns for a context
HistoryOf(f, n) == LoadHistory(f, n).history

\* the command of this step completed and its history context is n
CompletedOn(n, ops) == cmd'.op \in ops /\ cmd'.kind = "ok" /\ cmd'.ctx = n

ScopedUnmergeAfterFullMerges ==
    /\ last.op = "unmerge" /\ last.fail = "none"
    /\ \E i \in DOMAIN last.preHist : last.preHist[i].source = last.name
    /\ \A i \in DOMAIN last.preHist :
          last.preHist[i].source = last.name => last.preHist[i].full_merge

\* what an item of the full merges of the source names (a top-level key, an
\* env entry or a rule) and the target held is still in the target
KeepsFullMergeItems ==
    \A it \in FullItemsOfSource :
        /\ it \in DOMAIN last.pre.m => Get(doc, it) = last.pre.m[it]
        /\ (StartsWith(it, "env:") /\ StripPrefix(it, "env:") \in DOMAIN EnvOf(last.pre))
              => StripPrefix(it, "env:") \in DOMAIN EnvOf(doc)
        /\ \A list \in Lists :
              LET tag == "permissions." \o list \o ":" IN
              (StartsWith(it, tag) /\ Str(StripPrefix(it, tag)) \in Range(ListOf(last.pre, list)))
                  => Str(StripPrefix(it, tag)) \in Range(ListOf(doc, list))

\* an unmerge_full of the source that the latest command unmerged
FullUnmergeAfterScopedStep ==
    /\ ScopedUnmergeAfterFullMerges
    /\ last'.op = "unmerge_full" /\ last'.fail = "none"
    /\ last'.name = last.name

\* C22: after merge_full from S followed by unmerge_permissions for S, the
\* top-level keys, env entries and permissions.* rules that the full merge
\* added are still in the target, the history holds no record of S, and an
\* unmerge_full for S that follows leaves the document as it is
C22_NotIndependentlyReversible ==
    /\ [](ScopedUnmergeAfterFullMerges =>
            /\ KeepsFullMergeItems
            /\ \A i \in DOMAIN hist : hist[i].source # last.name)
    /\ [][FullUnmergeAfterScopedStep => doc' = doc]_vars

(***************************************************************************)
(* C23: unmerge removes only what the merges of the source added           *)
(***************************************************************************)
\* the first command was a completed merge, so that last.pre is the target
\* before the first merge from its source, and this step is a completed
\* unmerge of that source
MergeThenUnmergeStep ==
    /\ Merged /\ last.fail = "none" /\ nOps = 1
    /\ last'.op \in Unmerges /\ last'.fail = "none"
    /\ last'.name = last.name

\* every top-level key other than permissions and env, every env entry and
\* every string rule of a permission list of document p is in document q
\* with the same value
KeepsAllOf(p, q) ==
    /\ \A k \in OtherKeys(p) : Get(q, k) = p.m[k]
    /\ \A k \in DOMAIN EnvOf(p) : k \in DOMAIN EnvOf(q) /\ EnvOf(q)[k] = EnvOf(p)[k]
    /\ \A list \in Lists :
          \A r \in StrSet(ListOf(p, list)) : Str(r) \in Range(ListOf(q, list))

\* C23: for any target and any source, names with a colon included, every
\* permission rule, env entry and top-level key that the target held before
\* the first merge from S is still there with the same value after
\* unmerge_permissions or unmerge_full for S (here: a merge from S as the
\* first command, directly followed by the unmerge)
C23_UnmergeKeepsOriginal ==
    [][MergeThenUnmergeStep => KeepsAllOf(last.pre, doc')]_vars

(***************************************************************************)
(* Properties of the commands that manage the contexts                     *)
(***************************************************************************)
CurrentOf(f) == LoadState(f).state.current

PreviousOf(f) == LoadState(f).state.previous

NameOf(option) == IF option = None THEN "" ELSE option.s

Succeeded(op) == cmd.op = op /\ cmd.kind = "ok"

\* C24: after any sequence of context commands the persisted state never
\* has previous equal to current when both are set.
C24_PreviousDiffers ==
    (CurrentOf(fs) # None /\ PreviousOf(fs) # None) => PreviousOf(fs) # CurrentOf(fs)

\* the names the state remembers are names of stored contexts
StateNamesExist(f) ==
    /\ CurrentOf(f) # None => Exists(f, ContextPath(NameOf(CurrentOf(f))))
    /\ PreviousOf(f) # None => Exists(f, ContextPath(NameOf(PreviousOf(f))))

DeleteStep ==
    /\ cmd'.op = "delete"
    /\ IF CurrentOf(fs) = Str(cmd'.target)
       THEN cmd'.kind # "ok" /\ fs' = fs
       ELSE cmd'.kind = "ok" =>
              /\ ~Exists(fs', ContextPath(cmd'.target))
              /\ CurrentOf(fs') = CurrentOf(fs)
              /\ PreviousOf(fs') = (IF PreviousOf(fs) = Str(cmd'.target)
                                    THEN None ELSE PreviousOf(fs))

Renamed(option, old_name, new_name) ==
    IF option = Str(old_name) THEN Str(new_name) ELSE option

RenameStep ==
    /\ cmd'.op = "rename"
    /\ cmd'.kind = "ok" =>
         /\ CurrentOf(fs') = Renamed(CurrentOf(fs), cmd'.target, cmd'.source)
         /\ PreviousOf(fs') = Renamed(PreviousOf(fs), cmd'.target, cmd'.source)

\* C25: the current and previous names of the state, when set, each name a
\* context whose file exists; deleting the active context fails and changes
\* nothing; deleting the previous context clears previous; renaming the
\* current or previous context renames it in the state.
C25_StateNamesStored ==
    /\ [](StateNamesExist(fs))
    /\ [][(cmd'.op = "delete" => DeleteStep) /\ (cmd'.op = "rename" => RenameStep)]_<<vars, fsVars, raceVars>>

C25_Witness ==
    /\ Succeeded("delete")
    /\ PreviousOf(cmd.pre) = Str(cmd.target)
    /\ CurrentOf(cmd.pre) # None
    /\ PreviousOf(fs) = None

SwitchStep ==
    /\ cmd'.op = "switch"
    /\ IF Exists(fs, ContextPath(cmd'.target))
       THEN cmd'.kind = "ok" =>
              /\ CurrentOf(fs') = Str(cmd'.target)
              /\ PreviousOf(fs') =
                    (IF CurrentOf(fs) # None /\ CurrentOf(fs) # Str(cmd'.target)
                     THEN CurrentOf(fs) ELSE PreviousOf(fs))
              /\ fs'[ClaudeSettingsPath] = fs[ContextPath(cmd'.target)]
       ELSE /\ cmd'.kind # "ok"
            /\ CurrentOf(fs') = CurrentOf(fs)
            /\ PreviousOf(fs') = PreviousOf(fs)
            /\ fs'[ClaudeSettingsPath] = fs[ClaudeSettingsPath]

\* C26: a successful switch_context(name) sets current to name, sets
\* previous to the former current exactly when there was one and it differs
\* from name, and copies the stored content of name to the active settings
\* file; a switch to a name with no stored context fails and leaves
\* current, previous and the active settings file as they were.
C26_SwitchContext ==
    [][cmd'.op = "switch" => SwitchStep]_<<vars, fsVars, raceVars>>

C26_Witness ==
    /\ Succeeded("switch")
    /\ CurrentOf(cmd.pre) # None
    /\ CurrentOf(cmd.pre) # Str(cmd.target)
    /\ PreviousOf(fs) = CurrentOf(cmd.pre)
    /\ PreviousOf(cmd.pre) # PreviousOf(fs)
    /\ fs[ClaudeSettingsPath] # cmd.pre[ClaudeSettingsPath]

\* current and previous name two distinct stored contexts
TwoContexts(f) ==
    /\ CurrentOf(f) # None /\ PreviousOf(f) # None
    /\ CurrentOf(f) # PreviousOf(f)
    /\ Exists(f, ContextPath(NameOf(CurrentOf(f))))
    /\ Exists(f, ContextPath(NameOf(PreviousOf(f))))

\* one switch_to_previous exchanges current and previous
ToggleStep ==
    (cmd'.op = "switch_previous" /\ TwoContexts(fs)) =>
        /\ cmd'.kind = "ok"
        /\ CurrentOf(fs') = PreviousOf(fs)
        /\ PreviousOf(fs') = CurrentOf(fs)

\* a second switch_to_previous right after the first restores the state
\* and the active settings
ToggleBackStep ==
    (/\ cmd.op = "switch_previous" /\ TwoContexts(cmd.pre)
     /\ cmd'.op = "switch_previous") =>
        /\ cmd'.kind = "ok"
        /\ CurrentOf(fs') = CurrentOf(cmd.pre)
        /\ PreviousOf(fs') = PreviousOf(cmd.pre)
        /\ fs'[ClaudeSettingsPath] = fs'[ContextPath(NameOf(CurrentOf(cmd.pre)))]

\* C27: with current = A and previous = B, two distinct stored contexts,
\* switch_to_previous gives current = B and previous = A, and a second
\* switch_to_previous restores current = A, previous = B and the active
\* settings content of A.
C27_Toggle ==
    [][ToggleStep /\ ToggleBackStep]_<<vars, fsVars, raceVars>>

C27_Witness ==
    /\ Succeeded("switch_previous")
    /\ nCmds = 2
    /\ TwoContexts(fs)
    /\ CurrentOf(cmd.pre) = PreviousOf(fs)
    /\ PreviousOf(cmd.pre) = CurrentOf(fs)
    /\ fs[ClaudeSettingsPath] = fs[ContextPath(NameOf(CurrentOf(fs)))]
    /\ fs[ClaudeSettingsPath] # cmd.pre[ClaudeSettingsPath]

\* C28: a freshly created context has no merge history: after
\* create_context(name) or import_context(name) succeeds, load_history(name)
\* is empty, whatever commands ran before.
C28_FreshContextNoHistory ==
    (Succeeded("create") \/ Succeeded("import")) => HistoryOf(fs, cmd.target) = <<>>

\* C29: rename_context keeps the merge history with the context: after
\* rename_context(old, new) succeeds, load_history(new) is what
\* load_history(old) was before the rename.
C29_RenameKeepsHistory ==
    [][(cmd'.op = "rename" /\ cmd'.kind = "ok") =>
          HistoryOf(fs', cmd'.source) = HistoryOf(fs, cmd'.target)]_<<vars, fsVars, raceVars>>

\* the rules a record lists as list:<r>
RecordedRules(record, list) ==
    {StripPrefix(item, list \o ":") :
        item \in {i \in Range(record.merged_items) : StartsWith(i, list \o ":")}}

\* C30: every rule listed as allow:<r> or deny:<r> in a record of the
\* history of context C is present in the stored document of C, also when
\* the merge was addressed to the target current while C was current.
C30_HistoryDescribesContext ==
    \A n \in ContextNames, list \in Lists :
        \A i \in DOMAIN HistoryOf(fs, n) :
            RecordedRules(HistoryOf(fs, n)[i], list)
                \subseteq StrSet(ListOf(fs[ContextPath(n)], list))

====
